---- MODULE Spec2Model ----
(***************************************************************************)
(* TikTok Shop product tracker (src/main.js): the crawl orchestrator, the  *)
(* frontier (request queue + seenProductIds), extractProduct, the snapshot *)
(* store with detectChanges, and sendNotifications.                        *)
(*                                                                         *)
(* JavaScript is single threaded: a handler runs without interruption      *)
(* between two awaits, so every action below is the code between two await *)
(* points of one handler, and the handlers of different workers interleave *)
(* only at those points.                                                   *)
(*                                                                         *)
(* A value that may be null is a sequence of length 0 (null) or 1.         *)
(***************************************************************************)
EXTENDS Integers, Sequences, FiniteSets, TLC

None == <<>>
Some(v) == <<v>>
IsNull(x) == x = <<>>
Val(x) == x[1]

(***************************************************************************)
(* Bounds                                                                  *)
(***************************************************************************)
\* workers of the autoscaled pool the model runs (input maxConcurrency <= this)
MaxWorkers == 2
\* crawlee re-queues a request whose handler threw this many times before it
\* calls failedRequestHandler (the library default is 3)
MaxRequestRetries == 1
\* the maxLinks argument of collectProductLinks at the listing branch is 200
\* (src/main.js:590); the model runs the same code with a small limit
ListingMaxLinks == 2
\* anchors on one listing page
MaxPageLinks == ListingMaxLinks + 1

Workers == 1..MaxWorkers

(***************************************************************************)
(* URLs.  A URL string is host + path + "?" query + "#" fragment; the path *)
(* is its sequence of segments ("" as last segment is a trailing slash).   *)
(***************************************************************************)
MkUrl(h, p, q, f) == [host |-> h, path |-> p, query |-> q, frag |-> f]
EmptyUrl == MkUrl("", <<>>, "", "")

Shop == "shop.tiktok.com"
Www == "www.tiktok.com"

\* /product\/([^\/\?\#]+)/i applied to the URL string: the segment after the
\* first "product" segment that has a non-empty successor
RECURSIVE PathMatch(_, _)
PathMatch(p, i) ==
    IF i >= Len(p) THEN None
    ELSE IF p[i] = "product" /\ p[i + 1] # "" THEN Some(p[i + 1])
    ELSE PathMatch(p, i + 1)

ProductPathMatch(url) == PathMatch(url.path, 1)

\* sha1(url).slice(0, 16): a digest is a value determined by the whole string
\* (collisions of the 64-bit prefix are not modelled)
Sha1(url) == [id |-> "sha1", of |-> url]
Lit(s) == [id |-> s, of |-> EmptyUrl]

\* href.startsWith('http') ? href : (location.origin + href)
Abs(href, origin) == IF href.host = "" THEN [href EXCEPT !.host = origin] ELSE href

\* /shop\.tiktok\.com\/product\//i.test(abs) || /\/product\/[A-Za-z0-9\-\_]+/i.test(abs)
ProductLike(abs) ==
    \/ abs.host = Shop /\ Len(abs.path) >= 2 /\ abs.path[1] = "product"
    \/ ~IsNull(ProductPathMatch(abs))

\* abs.split('?')[0]: everything from the first "?" on is cut, so a fragment
\* goes with the query it follows and stays when there is no query
SplitQuery(abs) == IF abs.query # "" THEN [abs EXCEPT !.query = "", !.frag = ""] ELSE abs

InSeq(x, s) == \E i \in DOMAIN s : s[i] = x

\* Array.from(new Set(list)): first occurrences, in order
RECURSIVE Dedupe(_, _)
Dedupe(s, acc) ==
    IF s = <<>> THEN acc
    ELSE Dedupe(Tail(s), IF InSeq(Head(s), acc) THEN acc ELSE Append(acc, Head(s)))

\* slice(0, n)
Slice(s, n) == IF Len(s) <= n THEN s ELSE SubSeq(s, 1, n)

RECURSIVE ProductLikeOf(_, _)
ProductLikeOf(hrefs, origin) ==
    IF hrefs = <<>> THEN <<>>
    ELSE LET abs == Abs(Head(hrefs), origin)
             rest == ProductLikeOf(Tail(hrefs), origin)
         IN  IF ProductLike(abs) THEN <<SplitQuery(abs)>> \o rest ELSE rest

\* the mutant of collectProductLinks that forgets the slice
collectProductLinksNoSlice(hrefs, origin, maxLinks) ==
    Dedupe(ProductLikeOf(hrefs, origin), <<>>)

collectProductLinks(hrefs, origin, maxLinks) ==
    Slice(Dedupe(ProductLikeOf(hrefs, origin), <<>>), maxLinks)

\* pidGuess ? pidGuess : sha1(url).slice(0, 16)
SeenKey(url) ==
    LET pidGuess == ProductPathMatch(url)
    IN  IF IsNull(pidGuess) THEN Sha1(url) ELSE Lit(Val(pidGuess))

\* the request queue's uniqueKey: the URL without its fragment (crawlee's
\* default; the query string is part of the key)
UniqueKey(url) == [url EXCEPT !.frag = ""]

(***************************************************************************)
(* Records and detectChanges                                               *)
(***************************************************************************)
NoChanges == [first_seen |-> FALSE, price |-> None, availability |-> None]

\* prev.price?.current ?? null
PriceCurrent(r) == IF "price" \in DOMAIN r THEN r.price.current ELSE None
\* prev.availability ?? null
Availability(r) == IF "availability" \in DOMAIN r THEN r.availability ELSE None

\* mutants of detectChanges
detectChangesNoNullGuard(prev, curr) ==
    IF IsNull(prev) THEN [NoChanges EXCEPT !.first_seen = TRUE]
    ELSE LET prevPrice == PriceCurrent(Val(prev))
             currPrice == PriceCurrent(curr)
             prevAvail == Availability(Val(prev))
             currAvail == Availability(curr)
         IN  [first_seen |-> FALSE,
              price |-> IF prevPrice # currPrice
                        THEN Some([from |-> prevPrice, to |-> currPrice]) ELSE None,
              availability |-> IF prevAvail # currAvail
                        THEN Some([from |-> prevAvail, to |-> currAvail]) ELSE None]

detectChangesAlwaysFirst(prev, curr) ==
    LET prevPrice == IF IsNull(prev) THEN None ELSE PriceCurrent(Val(prev))
        currPrice == PriceCurrent(curr)
    IN  [first_seen |-> TRUE,
         price |-> IF prevPrice # currPrice /\ ~IsNull(currPrice)
                   THEN Some([from |-> prevPrice, to |-> currPrice]) ELSE None,
         availability |-> None]

detectChanges(prev, curr) ==
    IF IsNull(prev) THEN [NoChanges EXCEPT !.first_seen = TRUE]
    ELSE LET prevPrice == PriceCurrent(Val(prev))
             currPrice == PriceCurrent(curr)
             prevAvail == Availability(Val(prev))
             currAvail == Availability(curr)
         IN  [first_seen |-> FALSE,
              price |-> IF prevPrice # currPrice /\ ~IsNull(currPrice)
                        THEN Some([from |-> prevPrice, to |-> currPrice]) ELSE None,
              availability |-> IF prevAvail # currAvail /\ ~IsNull(currAvail)
                        THEN Some([from |-> prevAvail, to |-> currAvail]) ELSE None]

\* the mutant of hasChange that takes the empty object for a change
hasChangeAlways(item) == TRUE

\* item.detected_changes && (price || availability || first_seen)
hasChange(item) ==
    \/ ~IsNull(item.detected_changes.price)
    \/ ~IsNull(item.detected_changes.availability)
    \/ item.detected_changes.first_seen

(***************************************************************************)
(* JavaScript values found in a page's embedded data: null/undefined, a    *)
(* string the code only passes on (s), a string the code looks into        *)
(* (cs, its characters), a number, the empty array                         *)
(***************************************************************************)
JNull == [t |-> "null", s |-> "", cs |-> <<>>, n |-> 0]
JStr(s) == [t |-> "string", s |-> s, cs |-> <<>>, n |-> 0]
JText(cs) == [t |-> "text", s |-> "", cs |-> cs, n |-> 0]
JNum(n) == [t |-> "number", s |-> "", cs |-> <<>>, n |-> n]
JArr == [t |-> "array", s |-> "", cs |-> <<>>, n |-> 0]

\* if (v), !v, v || w
JsTruthy(v) ==
    CASE v.t = "null" -> FALSE
      [] v.t = "string" -> v.s # ""
      [] v.t = "text" -> v.cs # <<>>
      [] v.t = "number" -> v.n # 0
      [] v.t = "array" -> TRUE

JsOr(v, w) == IF JsTruthy(v) THEN v ELSE w

RECURSIVE Join(_)
Join(cs) == IF cs = <<>> THEN "" ELSE Head(cs) \o Join(Tail(cs))

\* String(v): [].toString() is the empty string
JsString(v) ==
    CASE v.t = "null" -> "null"
      [] v.t = "string" -> v.s
      [] v.t = "text" -> Join(v.cs)
      [] v.t = "number" -> ToString(v.n)
      [] v.t = "array" -> ""

DigitValue(c) ==
    CASE c = "0" -> 0 [] c = "1" -> 1 [] c = "2" -> 2 [] c = "3" -> 3 [] c = "4" -> 4
      [] c = "5" -> 5 [] c = "6" -> 6 [] c = "7" -> 7 [] c = "8" -> 8 [] c = "9" -> 9
      [] OTHER -> -1

\* the value of a string of digits, null (NaN) when a character is no digit
RECURSIVE ParseDigits(_, _)
ParseDigits(cs, acc) ==
    IF cs = <<>> THEN Some(acc)
    ELSE IF DigitValue(Head(cs)) < 0 THEN None
    ELSE ParseDigits(Tail(cs), 10 * acc + DigitValue(Head(cs)))

\* the index of the first c in cs, 0 when there is none
RECURSIVE IndexOf(_, _, _)
IndexOf(cs, c, i) ==
    IF i > Len(cs) THEN 0 ELSE IF cs[i] = c THEN i ELSE IndexOf(cs, c, i + 1)

\* Number(string) for strings of digits, "." and other characters: digits
\* with an optional "." and more digits; the empty string is 0; anything else
\* is NaN (null here).  The numbers of the model are integers: a string
\* whose fraction is not zero has no value here.
ParseNumber(cs) ==
    LET dot == IndexOf(cs, ".", 1)
        whole == IF dot = 0 THEN cs ELSE SubSeq(cs, 1, dot - 1)
        fraction == IF dot = 0 THEN <<>> ELSE SubSeq(cs, dot + 1, Len(cs))
    IN  IF dot # 0 /\ whole = <<>> /\ fraction = <<>> THEN None
        ELSE IF IsNull(ParseDigits(whole, 0)) \/ IsNull(ParseDigits(fraction, 0)) THEN None
        ELSE CASE Val(ParseDigits(fraction, 0)) = 0 -> ParseDigits(whole, 0)

\* Number(v) || null: NaN and 0 give null (Number("") and Number([]) are 0)
NumberOrNull(v) ==
    LET num == CASE v.t = "number" -> Some(v.n)
                 [] v.t = "text" -> ParseNumber(v.cs)
                 [] v.t \in {"null", "array"} -> Some(0)
    IN  IF IsNull(num) \/ Val(num) = 0 THEN None ELSE num

\* toLowerCase and the i flag, on the letters the texts below use
Lower(c) ==
    CASE c = "I" -> "i" [] c = "S" -> "s" [] c = "O" -> "o" [] c = "U" -> "u"
      [] c = "T" -> "t" [] c = "P" -> "p" [] c = "A" -> "a" [] OTHER -> c

LowerCase(cs) == [i \in DOMAIN cs |-> Lower(cs[i])]

\* hay.includes(needle), /needle/.test(hay)
Includes(hay, needle) ==
    \E i \in 0..(Len(hay) - Len(needle)) : SubSeq(hay, i + 1, i + Len(needle)) = needle

(***************************************************************************)
(* extractProduct: the function given to page.evaluate, source by source   *)
(***************************************************************************)
\* const out = {...}: the fields the claims are about
EmptyOut == [product_id |-> JNull, title |-> JNull, price |-> None, availability |-> None]

\* avail.toLowerCase().includes('instock') / includes('outofstock')
OfferAvailability(avail, before) ==
    IF avail.t # "text" THEN before
    ELSE IF Includes(LowerCase(avail.cs), <<"i", "n", "s", "t", "o", "c", "k">>) THEN Some("IN_STOCK")
    ELSE IF Includes(LowerCase(avail.cs), <<"o", "u", "t", "o", "f", "s", "t", "o", "c", "k">>)
         THEN Some("OUT_OF_STOCK")
    ELSE before

\* 1) JSON-LD Product (offers is the single offer, or the first of the array)
FromLinkedData(out, ld) ==
    IF IsNull(ld) THEN out
    ELSE LET productLD == Val(ld)
             offers == productLD.offers
             sku == IF JsTruthy(productLD.sku) THEN JStr(JsString(productLD.sku)) ELSE out.product_id
         IN  [product_id |-> IF ~JsTruthy(sku) /\ JsTruthy(productLD.productID)
                             THEN JStr(JsString(productLD.productID)) ELSE sku,
              title |-> JsOr(out.title, JsOr(productLD.name, JNull)),
              price |-> IF IsNull(offers) THEN out.price ELSE NumberOrNull(Val(offers).price),
              availability |-> IF IsNull(offers) THEN out.availability
                               ELSE OfferAvailability(Val(offers).availability, out.availability)]

\* 2) NEXT_DATA: the first "productId" and the first "title" of 3 to 200
\* characters in the serialized payload
FromNextData(out, nextData) ==
    IF IsNull(nextData) THEN out
    ELSE [out EXCEPT !.product_id = JsOr(@, Val(nextData).productId),
                     !.title = IF ~JsTruthy(@) /\ JsTruthy(Val(nextData).title)
                               THEN Val(nextData).title ELSE @]

\* /out/i.test(v.stockStatus), else /in/i.test(v.stockStatus)
StockStatus(status, before) ==
    IF ~JsTruthy(status) THEN before
    ELSE IF Includes(LowerCase(status.cs), <<"o", "u", "t">>) THEN Some("OUT_OF_STOCK")
    ELSE IF Includes(LowerCase(status.cs), <<"i", "n">>) THEN Some("IN_STOCK")
    ELSE before

\* 3) one entry of __APOLLO_STATE__ whose __typename matches /Product/i
\* (v.price is the current of the entry's price object)
ApolloEntry(out, v) ==
    [product_id |-> JsOr(out.product_id, JsOr(v.id, JNull)),
     title |-> JsOr(out.title, JsOr(v.title, JNull)),
     price |-> IF ~JsTruthy(v.price) \/ ~IsNull(out.price) THEN out.price
               ELSE IF IsNull(NumberOrNull(v.price)) THEN out.price ELSE NumberOrNull(v.price),
     availability |-> StockStatus(v.stockStatus, out.availability)]

\* for (const [k, v] of Object.entries(apollo))
RECURSIVE FromApollo(_, _)
FromApollo(out, apollo) ==
    IF apollo = <<>> THEN out ELSE FromApollo(ApolloEntry(out, Head(apollo)), Tail(apollo))

\* SIGI_STATE: the first "productId" in the serialized state
FromSigi(out, sigi) == [out EXCEPT !.product_id = JsOr(@, sigi)]

\* 4) DOM fallbacks: h1, document.body.innerText
FromDom(out, dom) ==
    [out EXCEPT !.title = IF JsTruthy(@) THEN @ ELSE dom.h1,
                !.availability =
                    IF ~IsNull(@) THEN @
                    ELSE IF Includes(LowerCase(dom.bodyText),
                                     <<"o", "u", "t", " ", "o", "f", " ", "s", "t", "o", "c", "k">>)
                         THEN Some("OUT_OF_STOCK")
                    ELSE IF \/ Includes(LowerCase(dom.bodyText), <<"i", "n", " ", "s", "t", "o", "c", "k">>)
                            \/ Includes(LowerCase(dom.bodyText),
                                        <<"a", "v", "a", "i", "l", "a", "b", "l", "e">>)
                         THEN Some("IN_STOCK")
                    ELSE @]

\* out after each source, in the order of the code
AfterLinkedData(pg) == FromLinkedData(EmptyOut, pg.ld)
AfterNextData(pg) == FromNextData(AfterLinkedData(pg), pg.next)
AfterApollo(pg) == FromApollo(AfterNextData(pg), pg.apollo)
AfterSigi(pg) == FromSigi(AfterApollo(pg), pg.sigi)

\* const data = await page.evaluate(() => {...})
Evaluate(pg) == FromDom(AfterSigi(pg), pg.dom)

\* the mutant of NormalizeProductId without the digest
NormalizeProductIdNoDigest(dataId, requestUrl) ==
    IF JsTruthy(dataId) THEN Lit(JsString(dataId))
    ELSE LET m == ProductPathMatch(requestUrl)
         IN  IF ~IsNull(m) THEN Lit(Val(m)) ELSE Lit("")

\* Normalize product_id: the embedded id, else the URL match, else the digest
NormalizeProductId(dataId, requestUrl) ==
    IF JsTruthy(dataId) THEN Lit(JsString(dataId))
    ELSE LET m == ProductPathMatch(requestUrl)
         IN  IF ~IsNull(m) THEN Lit(Val(m)) ELSE Sha1(requestUrl)

\* the record extractProduct returns (the fields the crawl reads or diffs)
extractProduct(data, requestUrl) ==
    [product_id |-> NormalizeProductId(data.product_id, requestUrl),
     url |-> requestUrl,
     title |-> JsOr(data.title, JNull),
     price |-> [current |-> data.price],
     availability |-> data.availability,
     screenshot_key |-> None,
     detected_changes |-> NoChanges]

(***************************************************************************)
(* The key-value store 'tiktok-shop-tracker' and the request queue         *)
(***************************************************************************)
SnapshotKey(pid) == [kind |-> "product", pid |-> pid]
ScreenshotKey(pid) == [kind |-> "screenshot", pid |-> pid]

\* store.getValue(key): the value, or null when the key is absent
GetValue(s, k) == IF k \in DOMAIN s THEN Some(s[k]) ELSE None
\* store.setValue(key, value): the key's value is replaced as a whole
SetValue(s, k, v) == [x \in DOMAIN s \cup {k} |-> IF x = k THEN v ELSE s[x]]

MkRequest(url, label) == [url |-> url, label |-> label, retryCount |-> 0]

ListingLabels == {"SELLER_SHOP", "CATEGORY", "SEARCH"}

VARIABLES
    input,          \* Actor.getInput(), destructured at src/main.js:452-466
    site,           \* the environment of the run
    pending,        \* requestQueue: requests waiting, in order
    known,          \* requestQueue: uniqueKeys of every request ever added
    store,          \* the key-value store
    dataset,        \* Actor.pushData: the output records, in order
    totalPushed,    \* let totalPushed
    seenProductIds, \* const seenProductIds = new Set()
    tornDown,       \* crawler.teardown() was called
    failedLog,      \* URLs logged by failedRequestHandler
    faults,         \* awaits that have rejected so far
    posts,          \* the POSTs sendNotifications made, in order: [sink, item, ok]
    pc,             \* per worker: the await its handler is suspended at
    req,            \* per worker: the request it handles (or null)
    product,        \* per worker: const product (or null)
    links,          \* per worker: the links of the for loop not yet done
    enqueued,       \* per worker: let enqueued of its latest listing request
    base,           \* history, per worker: the values last committed for its
                    \* product id when it read the snapshot
    lastCommitted,  \* history: product id -> values of the last commit
    commits,        \* history: snapshot key -> the records stored under it,
                    \* in order, from the one the run found there
    processed,      \* history: URLs of the PRODUCT requests a worker took
    discovered,     \* history: addRequest calls of link discovery, per key
    dPrev, dCurr, dOut, \* the arguments and the result of one detectChanges call
    ePage, eUrl, eOut   \* the page, the URL and the result of one extractProduct call

frontierVars == <<pending, known, seenProductIds>>
outputVars == <<store, dataset, totalPushed, posts, failedLog>>
workerVars == <<pc, req, product, links, enqueued>>
historyVars == <<base, lastCommitted, commits, processed, discovered>>
diffVars == <<dPrev, dCurr, dOut>>
extractVars == <<ePage, eUrl, eOut>>
vars == <<input, site, frontierVars, outputVars, tornDown, faults, workerVars, historyVars, diffVars,
         extractVars>>

(***************************************************************************)
(* Inputs                                                                  *)
(***************************************************************************)
U1 == MkUrl(Shop, <<"product", "1">>, "", "")
U1q == MkUrl(Shop, <<"product", "1">>, "src=feed", "")
U2 == MkUrl(Shop, <<"product", "2">>, "", "")
CategoryUrl == MkUrl(Shop, <<"category", "toys">>, "", "")

Sink(u) == [webhookUrl |-> IF u \in {"webhook", "both"} THEN Some("W") ELSE None,
            slackWebhookUrl |-> IF u \in {"slack", "both"} THEN Some("S") ELSE None]

\* what page.evaluate finds on a product page: out.product_id, out.price.current
\* and out.availability after the four sources
Data(p, a) == [product_id |-> JNull, title |-> JNull, price |-> p, availability |-> a]
D25 == Data(Some(25), Some("IN_STOCK"))
D20 == Data(Some(20), Some("OUT_OF_STOCK"))
DNull == Data(None, None)
PageData == {D25, D20, DNull}
\* two pages that carry the same embedded product id
DSku25 == [D25 EXCEPT !.product_id = JStr("A")]
DSku20 == [D20 EXCEPT !.product_id = JStr("A")]

\* the anchors of a listing page
H1 == MkUrl(Shop, <<"product", "1">>, "", "")
H1q == MkUrl(Shop, <<"product", "1">>, "src=feed", "")
H2 == MkUrl("", <<"product", "2">>, "", "")
H0 == MkUrl(Shop, <<"product", "">>, "", "")
HAbout == MkUrl(Www, <<"about">>, "", "")
Hrefs == {H1, H1q, H2, H0, HAbout}

\* a snapshot that an earlier run left in the named store
OldSnapshot ==
    [extractProduct(D25, U1) EXCEPT !.detected_changes = [NoChanges EXCEPT !.first_seen = TRUE]]
OldStore == SetValue(<<>>, SnapshotKey(OldSnapshot.product_id), OldSnapshot)

Input(products, sellers, categories, words, items, shots, notifyCfg, concurrency) ==
    [productUrls |-> products, sellerHandles |-> sellers, keywords |-> words,
     categoryUrls |-> categories, maxItems |-> items, captureScreenshots |-> shots,
     notify |-> notifyCfg, maxConcurrency |-> concurrency,
     \* a key of the input object that the destructuring does not name
     maxRequestsPerCrawl |-> 1]

\* what the run meets: the store as earlier runs left it, the product pages and
\* the anchors the site serves, and how many awaits reject
Run(in, kv, data, hrefs, budget) ==
    [input |-> in, store |-> kv, site |-> [data |-> data, hrefs |-> hrefs, faults |-> budget]]

Runs ==
    \* two requests for one product race, the budget is one item
    {Run(Input(<<U1, U1q>>, <<>>, <<>>, <<>>, 1, FALSE, Some(Sink("webhook")), MaxWorkers),
         <<>>, {D25, D20}, {}, 1)}
    \cup
    \* the same two requests one after the other, both sinks
    {Run(Input(<<U1, U1q>>, <<>>, <<>>, <<>>, 2, FALSE, Some(Sink("both")), 1),
         kv, PageData, {}, 2) : kv \in {<<>>, OldStore}}
    \cup
    \* screenshots, the chat sink alone
    {Run(Input(<<U1>>, <<>>, <<>>, <<>>, 2, TRUE, Some(Sink("slack")), 1),
         OldStore, PageData, {}, 1)}
    \cup
    \* a seeded product and a search page with more links than the limit
    {Run(Input(<<U1q>>, <<>>, <<>>, <<"toy">>, 2, FALSE, None, 1),
         <<>>, {D25}, Hrefs, 2)}
    \cup
    \* two listing pages handled at the same time
    {Run(Input(<<>>, <<"h">>, <<CategoryUrl>>, <<>>, 1, FALSE, None, MaxWorkers),
         <<>>, {D25}, {H1, H2, H0}, 1)}
    \cup
    \* two URLs whose pages carry one embedded product id, handled at the same time
    {Run(Input(<<U1, U2>>, <<>>, <<>>, <<>>, 2, FALSE, None, MaxWorkers),
         <<>>, {DSku25, DSku20}, {}, 0)}

Values(r) == [price |-> PriceCurrent(r), availability |-> Availability(r)]

\* the sequences of at most n distinct elements of S
RECURSIVE SeqsUpTo(_, _)
SeqsUpTo(S, n) ==
    IF n = 0 THEN {<<>>}
    ELSE LET shorter == SeqsUpTo(S, n - 1)
         IN  shorter \cup {Append(s, x) : s \in {t \in shorter : Len(t) = n - 1}, x \in S}

\* the anchors of a listing page, in document order
PageAnchors == {s \in SeqsUpTo(site.hrefs, MaxPageLinks) : \A i, j \in DOMAIN s : i # j => s[i] # s[j]}

(***************************************************************************)
(* The request queue                                                       *)
(***************************************************************************)
\* queue.addRequest: a request whose uniqueKey the queue has seen is dropped
addRequest(q, r) ==
    IF UniqueKey(r.url) \in q.known THEN q
    ELSE [pending |-> Append(q.pending, r), known |-> q.known \cup {UniqueKey(r.url)}]

RECURSIVE enqueueMany(_, _, _)
enqueueMany(q, urls, label) ==
    IF urls = <<>> THEN q
    ELSE IF Head(urls) = EmptyUrl THEN enqueueMany(q, Tail(urls), label)
    ELSE enqueueMany(addRequest(q, MkRequest(Head(urls), label)), Tail(urls), label)

SellerUrl(h) == MkUrl(Www, <<"@" \o h, "shop">>, "", "")
SearchUrl(k) == MkUrl(Shop, <<"search">>, "q=" \o k, "")

\* Actor.main up to crawler.run(): the four seedings, in order
Seeded(in) ==
    LET q0 == [pending |-> <<>>, known |-> {}]
        q1 == enqueueMany(q0, in.productUrls, "PRODUCT")
        q2 == IF in.sellerHandles # <<>>
              THEN enqueueMany(q1, [i \in DOMAIN in.sellerHandles |-> SellerUrl(in.sellerHandles[i])],
                               "SELLER_SHOP")
              ELSE q1
        q3 == enqueueMany(q2, in.categoryUrls, "CATEGORY")
    IN  IF in.keywords # <<>>
        THEN enqueueMany(q3, [i \in DOMAIN in.keywords |-> SearchUrl(in.keywords[i])], "SEARCH")
        ELSE q3

\* Actor.main up to crawler.run(), on the run `run`
InitRun(run) ==
    /\ input = run.input
    /\ store = run.store
    /\ site = run.site
    /\ pending = Seeded(run.input).pending
    /\ known = Seeded(run.input).known
    /\ dataset = <<>>
    /\ totalPushed = 0
    /\ seenProductIds = {}
    /\ tornDown = FALSE
    /\ failedLog = <<>>
    /\ faults = 0
    /\ posts = <<>>
    /\ pc = [w \in Workers |-> "idle"]
    /\ req = [w \in Workers |-> None]
    /\ product = [w \in Workers |-> None]
    /\ links = [w \in Workers |-> <<>>]
    /\ enqueued = [w \in Workers |-> 0]
    /\ base = [w \in Workers |-> None]
    /\ lastCommitted = [k \in DOMAIN run.store |-> Values(run.store[k])]
    /\ commits = [k \in DOMAIN run.store |-> <<run.store[k]>>]
    /\ processed = {}
    /\ discovered = <<>>

Init ==
    /\ \E run \in Runs : InitRun(run)
    /\ dPrev = None /\ dCurr = None /\ dOut = None
    /\ ePage = None /\ eUrl = None /\ eOut = None

(***************************************************************************)
(* The crawler: one worker takes a request and runs requestHandler on it   *)
(***************************************************************************)
Busy == {w \in Workers : pc[w] # "idle"}

\* the worker's handler has returned or thrown: its locals are gone
Release(w) ==
    /\ pc' = [pc EXCEPT ![w] = "idle"]
    /\ req' = [req EXCEPT ![w] = None]
    /\ product' = [product EXCEPT ![w] = None]
    /\ links' = [links EXCEPT ![w] = <<>>]
    /\ base' = [base EXCEPT ![w] = None]

\* the pool starts a task only while it runs and has a free slot
MayStart == ~tornDown /\ Cardinality(Busy) < input.maxConcurrency

\* the autoscaled pool takes the next request in its first free slot;
\* navigation and the page work before the first result (consent, scrolling,
\* page.evaluate) are in flight
FetchNextRequest(w) ==
    /\ pc[w] = "idle"
    /\ \A v \in Workers : v < w => pc[v] # "idle"
    /\ MayStart
    /\ pending # <<>>
    /\ LET r == Head(pending)
       IN  /\ req' = [req EXCEPT ![w] = Some(r)]
           /\ pc' = [pc EXCEPT ![w] = IF r.label = "PRODUCT" THEN "extract" ELSE "collect"]
           /\ processed' = IF r.label = "PRODUCT" THEN processed \cup {r.url} ELSE processed
    /\ pending' = Tail(pending)
    /\ UNCHANGED <<input, site, faults, known, seenProductIds, outputVars, tornDown, product, links,
                   enqueued, base, lastCommitted, commits, discovered, diffVars, extractVars>>

\* the awaits of requestHandler that can reject (navigation, page.evaluate,
\* store.getValue, store.setValue, Actor.pushData, requestQueue.addRequest)
\* ("thrown": an error that left sendNotifications)
FailPoints == {"extract", "read", "save", "push", "collect", "add", "thrown"}

\* the mutant of ReclaimRequest that retries a failed request without limit
ReclaimRequestForever(w) ==
    /\ pc[w] \in FailPoints
    /\ pending' = Append(pending, Val(req[w]))
    /\ Release(w)
    /\ UNCHANGED <<input, site, faults, known, seenProductIds, outputVars, tornDown,
                   enqueued, lastCommitted, commits, processed, discovered, diffVars, extractVars>>

\* the handler threw and the request has retries left: crawlee puts it back
ReclaimRequest(w) ==
    /\ pc[w] \in FailPoints
    /\ pc[w] = "thrown" \/ faults < site.faults
    /\ faults' = IF pc[w] = "thrown" THEN faults ELSE faults + 1
    /\ Val(req[w]).retryCount < MaxRequestRetries
    /\ pending' = Append(pending, [Val(req[w]) EXCEPT !.retryCount = @ + 1])
    /\ Release(w)
    /\ UNCHANGED <<input, site, known, seenProductIds, outputVars, tornDown,
                   enqueued, lastCommitted, commits, processed, discovered, diffVars, extractVars>>

\* the handler threw and no retry is left: log.warning(`Request failed ${url}`)
failedRequestHandler(w) ==
    /\ pc[w] \in FailPoints
    /\ pc[w] = "thrown" \/ faults < site.faults
    /\ faults' = IF pc[w] = "thrown" THEN faults ELSE faults + 1
    /\ Val(req[w]).retryCount >= MaxRequestRetries
    /\ failedLog' = Append(failedLog, Val(req[w]).url)
    /\ Release(w)
    /\ UNCHANGED <<input, site, frontierVars, store, dataset, totalPushed, posts, tornDown,
                   enqueued, lastCommitted, commits, processed, discovered, diffVars, extractVars>>

(***************************************************************************)
(* requestHandler, label PRODUCT                                           *)
(***************************************************************************)
\* the mutant of Extract that marks the product it extracts as seen
ExtractMarksSeen(w) ==
    /\ pc[w] = "extract"
    /\ \E data \in site.data :
         product' = [product EXCEPT ![w] = Some(extractProduct(data, Val(req[w]).url))]
    /\ seenProductIds' = seenProductIds \cup {SeenKey(Val(req[w]).url)}
    /\ pc' = [pc EXCEPT ![w] = IF input.captureScreenshots THEN "screenshot" ELSE "read"]
    /\ UNCHANGED <<input, site, faults, pending, known, outputVars, tornDown, req, links, enqueued,
                   historyVars, diffVars, extractVars>>

\* const product = await extractProduct(page, region, request.url)
Extract(w) ==
    /\ pc[w] = "extract"
    /\ \E data \in site.data :
         product' = [product EXCEPT ![w] = Some(extractProduct(data, Val(req[w]).url))]
    /\ pc' = [pc EXCEPT ![w] = IF input.captureScreenshots THEN "screenshot" ELSE "read"]
    /\ UNCHANGED <<input, site, faults, frontierVars, outputVars, tornDown, req, links, enqueued,
                   historyVars, diffVars, extractVars>>

\* the mutant of Screenshot without the try/catch
ScreenshotFatal(w) ==
    /\ pc[w] = "screenshot"
    /\ LET key == ScreenshotKey(Val(product[w]).product_id)
       IN  \/ /\ store' = SetValue(store, key, "png")
              /\ product' = [product EXCEPT ![w] = Some([Val(@) EXCEPT !.screenshot_key = Some(key)])]
              /\ pc' = [pc EXCEPT ![w] = "read"]
           \/ /\ UNCHANGED <<store, product>>
              /\ pc' = [pc EXCEPT ![w] = "thrown"]
    /\ UNCHANGED <<input, site, faults, frontierVars, dataset, totalPushed, posts, failedLog, tornDown,
                   req, links, enqueued, historyVars, diffVars, extractVars>>

\* the try block of the optional screenshot: page.screenshot and store.setValue
\* succeed and the key is set, or one of them throws and the catch logs it
Screenshot(w) ==
    /\ pc[w] = "screenshot"
    /\ LET key == ScreenshotKey(Val(product[w]).product_id)
       IN  \/ /\ store' = SetValue(store, key, "png")
              /\ product' = [product EXCEPT ![w] = Some([Val(@) EXCEPT !.screenshot_key = Some(key)])]
           \/ UNCHANGED <<store, product>>
    /\ pc' = [pc EXCEPT ![w] = "read"]
    /\ UNCHANGED <<input, site, faults, frontierVars, dataset, totalPushed, posts, failedLog, tornDown,
                   req, links, enqueued, historyVars, diffVars, extractVars>>

\* the mutant of ReadSnapshot that goes on to the emission without the commit
ReadSnapshotNoCommit(w) ==
    /\ pc[w] = "read"
    /\ LET p == Val(product[w])
           prev == GetValue(store, SnapshotKey(p.product_id))
       IN  /\ product' = [product EXCEPT ![w] =
                             Some([p EXCEPT !.detected_changes = detectChanges(prev, p)])]
           /\ base' = [base EXCEPT ![w] = GetValue(lastCommitted, SnapshotKey(p.product_id))]
    /\ pc' = [pc EXCEPT ![w] = "push"]
    /\ UNCHANGED <<input, site, faults, frontierVars, outputVars, tornDown, req, links, enqueued,
                   lastCommitted, commits, processed, discovered, diffVars, extractVars>>

\* const prev = await store.getValue(snapshotKey);
\* product.detected_changes = detectChanges(prev, product)
ReadSnapshot(w) ==
    /\ pc[w] = "read"
    /\ LET p == Val(product[w])
           prev == GetValue(store, SnapshotKey(p.product_id))
       IN  /\ product' = [product EXCEPT ![w] =
                             Some([p EXCEPT !.detected_changes = detectChanges(prev, p)])]
           /\ base' = [base EXCEPT ![w] = GetValue(lastCommitted, SnapshotKey(p.product_id))]
    /\ pc' = [pc EXCEPT ![w] = "save"]
    /\ UNCHANGED <<input, site, faults, frontierVars, outputVars, tornDown, req, links, enqueued,
                   lastCommitted, commits, processed, discovered, diffVars, extractVars>>

\* the mutant of Committed that updates the stored record field by field and
\* keeps its detected_changes
CommittedMerge(s, p) ==
    LET k == SnapshotKey(p.product_id)
    IN  IF k \in DOMAIN s
        THEN SetValue(s, k, [p EXCEPT !.detected_changes = s[k].detected_changes])
        ELSE SetValue(s, k, p)

\* the mutant of Committed that writes nothing
CommittedNothing(s, p) == s

\* the store after await store.setValue(snapshotKey, product)
Committed(s, p) == SetValue(s, SnapshotKey(p.product_id), p)

\* the records stored under the key k so far
History(k) == IF k \in DOMAIN commits THEN commits[k] ELSE <<>>

SaveSnapshot(w) ==
    /\ pc[w] = "save"
    /\ store' = Committed(store, Val(product[w]))
    /\ lastCommitted' = SetValue(lastCommitted, SnapshotKey(Val(product[w]).product_id),
                                 Values(Val(product[w])))
    /\ commits' = SetValue(commits, SnapshotKey(Val(product[w]).product_id),
                           History(SnapshotKey(Val(product[w]).product_id)) \o <<Val(product[w])>>)
    /\ pc' = [pc EXCEPT ![w] = "push"]
    /\ UNCHANGED <<input, site, faults, frontierVars, dataset, totalPushed, posts, failedLog, tornDown,
                   req, product, links, enqueued, base, processed, discovered, diffVars, extractVars>>

\* await Actor.pushData(product)
PushData(w) ==
    /\ pc[w] = "push"
    /\ dataset' = Append(dataset, Val(product[w]))
    /\ pc' = [pc EXCEPT ![w] = "pushed"]
    /\ UNCHANGED <<input, site, faults, frontierVars, store, totalPushed, posts, failedLog, tornDown,
                   req, product, links, enqueued, historyVars, diffVars, extractVars>>

Truthy(x) == ~IsNull(x) /\ Val(x) # ""

\* the mutant of NextDelivery without the try/catch around the webhook POST
NextDeliveryPropagates(notifyCfg, item, after, ok) ==
    IF IsNull(notifyCfg) \/ ~hasChange(item) THEN "return"
    ELSE IF after = "start" /\ Truthy(Val(notifyCfg).webhookUrl) THEN "webhook"
    ELSE IF after = "webhook" /\ ~ok THEN "throw"
    ELSE IF after # "slack" /\ Truthy(Val(notifyCfg).slackWebhookUrl) THEN "slack"
    ELSE "return"

\* sendNotifications: the await it suspends at next, from its start or after
\* the delivery to a sink returned (ok) or threw (~ok); "return" when it
\* returns to requestHandler, "throw" when the error leaves it
NextDelivery(notifyCfg, item, after, ok) ==
    IF IsNull(notifyCfg) \/ ~hasChange(item) THEN "return"
    ELSE IF after = "start" /\ Truthy(Val(notifyCfg).webhookUrl) THEN "webhook"
    ELSE IF after # "slack" /\ Truthy(Val(notifyCfg).slackWebhookUrl) THEN "slack"
    ELSE "return"

\* if (totalPushed >= maxItems) await crawler.teardown(); return
BudgetCheck(w, pushed) ==
    /\ tornDown' = (tornDown \/ pushed >= input.maxItems)
    /\ Release(w)

\* where requestHandler goes when sendNotifications is at `next`
Continue(w, next, pushed) ==
    IF next = "return" THEN BudgetCheck(w, pushed)
    ELSE /\ pc' = [pc EXCEPT ![w] = IF next = "throw" THEN "thrown" ELSE next]
         /\ UNCHANGED <<tornDown, req, product, links, base>>

\* the mutant of CountPushed that forgets the increment
CountPushedForgets(w) ==
    /\ pc[w] = "pushed"
    /\ totalPushed' = totalPushed
    /\ Continue(w, NextDelivery(input.notify, Val(product[w]), "start", TRUE), totalPushed)
    /\ UNCHANGED <<input, site, faults, frontierVars, store, dataset, posts, failedLog, enqueued,
                   lastCommitted, commits, processed, discovered, diffVars, extractVars>>

\* pushData resolved: totalPushed += 1, then sendNotifications up to its first
\* await, or through to the budget check when it makes no delivery
CountPushed(w) ==
    /\ pc[w] = "pushed"
    /\ totalPushed' = totalPushed + 1
    /\ Continue(w, NextDelivery(input.notify, Val(product[w]), "start", TRUE), totalPushed + 1)
    /\ UNCHANGED <<input, site, faults, frontierVars, store, dataset, posts, failedLog, enqueued,
                   lastCommitted, commits, processed, discovered, diffVars, extractVars>>

\* await gotScraping({url: webhookUrl, ...}): it resolves, or it rejects and
\* the catch logs a warning
PostWebhook(w) ==
    /\ pc[w] = "webhook"
    /\ \E ok \in BOOLEAN :
         /\ posts' = Append(posts, [sink |-> "webhook", item |-> Val(product[w]), ok |-> ok])
         /\ Continue(w, NextDelivery(input.notify, Val(product[w]), "webhook", ok), totalPushed)
    /\ UNCHANGED <<input, site, faults, frontierVars, store, dataset, totalPushed, failedLog, enqueued,
                   lastCommitted, commits, processed, discovered, diffVars, extractVars>>

\* await gotScraping({url: slackWebhookUrl, ...})
PostSlack(w) ==
    /\ pc[w] = "slack"
    /\ \E ok \in BOOLEAN :
         /\ posts' = Append(posts, [sink |-> "slack", item |-> Val(product[w]), ok |-> ok])
         /\ Continue(w, NextDelivery(input.notify, Val(product[w]), "slack", ok), totalPushed)
    /\ UNCHANGED <<input, site, faults, frontierVars, store, dataset, totalPushed, failedLog, enqueued,
                   lastCommitted, commits, processed, discovered, diffVars, extractVars>>

(***************************************************************************)
(* requestHandler, labels SELLER_SHOP, CATEGORY, SEARCH                    *)
(***************************************************************************)
\* if (seenProductIds.has(key)) continue: the links from the first unseen one
RECURSIVE SkipSeen(_, _)
SkipSeen(ls, seen) ==
    IF ls = <<>> THEN <<>>
    ELSE IF SeenKey(Head(ls)) \in seen THEN SkipSeen(Tail(ls), seen)
    ELSE ls

\* the mutant of MarkSeen that forgets the add
MarkSeenNever(seen, key) == seen

\* seenProductIds.add(key)
MarkSeen(seen, key) == seen \cup {key}

\* the for loop from `ls` on, up to its next await requestQueue.addRequest
\* (the key of that link is already in the set), or to the end of the handler
ForLoop(w, ls, count) ==
    LET rest == SkipSeen(ls, seenProductIds)
    IN  /\ enqueued' = [enqueued EXCEPT ![w] = count]
        /\ IF rest = <<>>
           THEN /\ Release(w)
                /\ UNCHANGED seenProductIds
           ELSE /\ seenProductIds' = MarkSeen(seenProductIds, SeenKey(Head(rest)))
                /\ links' = [links EXCEPT ![w] = rest]
                /\ pc' = [pc EXCEPT ![w] = "add"]
                /\ UNCHANGED <<req, product, base>>

\* const links = await collectProductLinks(page, 200); let enqueued = 0
CollectLinks(w) ==
    /\ pc[w] = "collect"
    /\ \E anchors \in PageAnchors :
         ForLoop(w, collectProductLinks(anchors, Val(req[w]).url.host, ListingMaxLinks), 0)
    /\ UNCHANGED <<input, site, faults, pending, known, outputVars, tornDown,
                   lastCommitted, commits, processed, discovered, diffVars, extractVars>>

Count(bag, k) == IF k \in DOMAIN bag THEN bag[k] ELSE 0

\* await requestQueue.addRequest({url, userData: {label: 'PRODUCT'}}); enqueued += 1
AddDiscovered(w) ==
    /\ pc[w] = "add"
    /\ LET url == Head(links[w])
           q == addRequest([pending |-> pending, known |-> known], MkRequest(url, "PRODUCT"))
       IN  /\ pending' = q.pending
           /\ known' = q.known
           /\ discovered' = SetValue(discovered, SeenKey(url), Count(discovered, SeenKey(url)) + 1)
    /\ ForLoop(w, Tail(links[w]), enqueued[w] + 1)
    /\ UNCHANGED <<input, site, faults, outputVars, tornDown, lastCommitted, commits, processed, diffVars, extractVars>>

(***************************************************************************)
(* The crawl                                                               *)
(***************************************************************************)
Next ==
    \E w \in Workers :
        \/ FetchNextRequest(w)
        \/ ReclaimRequest(w)
        \/ failedRequestHandler(w)
        \/ Extract(w)
        \/ Screenshot(w)
        \/ ReadSnapshot(w)
        \/ SaveSnapshot(w)
        \/ PushData(w)
        \/ CountPushed(w)
        \/ PostWebhook(w)
        \/ PostSlack(w)
        \/ CollectLinks(w)
        \/ AddDiscovered(w)

Spec == Init /\ [][Next]_vars

(***************************************************************************)
(* detectChanges on its own: every pair of a stored snapshot (or none) and *)
(* a new record, and one call                                              *)
(***************************************************************************)
NullablePrices == {None, Some(20), Some(25)}
NullableAvailability == {None, Some("IN_STOCK"), Some("OUT_OF_STOCK")}

DiffRecords ==
    [title : {"Lamp", "Lamp (new)"}, price : [current : NullablePrices],
     availability : NullableAvailability]

\* a snapshot without a price object, as prev.price?.current allows for
LegacySnapshot == [title |-> "Lamp", availability |-> Some("IN_STOCK")]

IdleRun == Run(Input(<<>>, <<>>, <<>>, <<>>, 1, FALSE, None, 1), <<>>, {}, {}, 0)

InitDiff ==
    /\ InitRun(IdleRun)
    /\ dPrev \in {None} \cup {Some(r) : r \in DiffRecords \cup {LegacySnapshot}}
    /\ dCurr \in {Some(r) : r \in DiffRecords}
    /\ dOut = None
    /\ ePage = None /\ eUrl = None /\ eOut = None

CallDetectChanges ==
    /\ IsNull(dOut)
    /\ dOut' = Some(detectChanges(dPrev, Val(dCurr)))
    /\ UNCHANGED <<input, site, frontierVars, outputVars, tornDown, faults, workerVars,
                   historyVars, dPrev, dCurr, extractVars>>

NextDiff == CallDetectChanges

DiffSpec == InitDiff /\ [][NextDiff]_vars

(***************************************************************************)
(* extractProduct on its own: every page of a small family, every URL of   *)
(* a small family, and one call                                            *)
(***************************************************************************)
LinkedData(name, offers, sku, productID) ==
    [name |-> name, offers |-> offers, sku |-> sku, productID |-> productID]
Offer(price, availability) == [price |-> price, availability |-> availability]
Entry(title, id, price, stockStatus) ==
    [title |-> title, id |-> id, price |-> price, stockStatus |-> stockStatus]

InStockText == <<"I", "n", "S", "t", "o", "c", "k">>
OutOfStockText == <<"O", "u", "t", "O", "f", "S", "t", "o", "c", "k">>

\* "2,0", "1,234.0", "12.0", "N/A": the price of an offer, as a string
PriceTexts ==
    {<<"2", ",", "0">>, <<"1", ",", "2", "3", "4", ".", "0">>, <<"1", "2", ".", "0">>,
     <<"N", "/", "A">>}

LinkedDatas ==
    {None,
     Some(LinkedData(JStr("Lamp"), Some(Offer(JNum(10), JText(InStockText))), JNull, JNull)),
     Some(LinkedData(JNull, Some(Offer(JText(<<"1", ",", "5">>), JText(OutOfStockText))),
                     JStr("S1"), JNull)),
     Some(LinkedData(JStr("Lamp"), None, JArr, JNum(7)))}
    \cup {Some(LinkedData(JStr("Lamp"), Some(Offer(JText(cs), JNull)), JNull, JNull)) : cs \in PriceTexts}

NextDatas == {None, Some([productId |-> JStr("N1"), title |-> JStr("Next lamp")])}

SoldOut == Entry(JStr("Apollo lamp"), JStr("A1"), JNum(12), JText(<<"O", "U", "T">>))
NoId == Entry(JNull, JArr, JText(<<"1", "2">>), JText(<<"i", "n">>))
Apollos == {<<>>, <<SoldOut>>, <<NoId>>, <<SoldOut, NoId>>}

Sigis == {JNull, JStr("G1")}

Doms ==
    {[h1 |-> JNull, bodyText |-> <<>>],
     [h1 |-> JStr("Heading"), bodyText |-> <<"I", "n", " ", "s", "t", "o", "c", "k">>],
     [h1 |-> JStr("Heading"),
      bodyText |-> <<"O", "u", "t", " ", "o", "f", " ", "s", "t", "o", "c", "k">>]}

Pages == [ld : LinkedDatas, next : NextDatas, apollo : Apollos, sigi : Sigis, dom : Doms]

ULamp == MkUrl(Shop, <<"product", "lamp">>, "", "")
UItem == MkUrl(Shop, <<"item", "42">>, "", "")
UView == MkUrl(Shop, <<"view", "lamp">>, "", "top")
ExtractUrls == {U1, U1q, ULamp, UItem, UView}

InitExtract ==
    /\ InitRun(IdleRun)
    /\ dPrev = None /\ dCurr = None /\ dOut = None
    /\ ePage \in {Some(pg) : pg \in Pages}
    /\ eUrl \in {Some(u) : u \in ExtractUrls}
    /\ eOut = None

CallExtractProduct ==
    /\ IsNull(eOut)
    /\ eOut' = Some(extractProduct(Evaluate(Val(ePage)), Val(eUrl)))
    /\ UNCHANGED <<input, site, frontierVars, outputVars, tornDown, faults, workerVars,
                   historyVars, diffVars, ePage, eUrl>>

NextExtract == CallExtractProduct

ExtractSpec == InitExtract /\ [][NextExtract]_vars

(***************************************************************************)
(* Properties                                                              *)
(***************************************************************************)
Called == ~IsNull(dOut)
Result == Val(dOut)

\* C1: detectChanges sets first_seen exactly when there is no previous
\* snapshot, and a first_seen change set has no price and no availability entry.
C1_FirstSeenIffNoSnapshot ==
    Called =>
        /\ Result.first_seen <=> IsNull(dPrev)
        /\ Result.first_seen => IsNull(Result.price) /\ IsNull(Result.availability)

C1_Witness ==
    /\ Called /\ IsNull(dPrev) /\ Result.first_seen
    /\ Val(dCurr).price.current = Some(25)

\* the tracked values of a record, read field by field
PriceOf(r) == IF "price" \in DOMAIN r THEN r.price.current ELSE None
AvailabilityOf(r) == IF "availability" \in DOMAIN r THEN r.availability ELSE None

\* C2: against an existing snapshot, there is a price entry exactly when the
\* new price.current is non-null and differs from the old one, and it is
\* {from: old, to: new}; likewise for availability; a record that differs
\* from the snapshot in its other fields only gives the empty change set.
C2_EntriesOnlyForNonNullDifferences ==
    Called /\ ~IsNull(dPrev) =>
        LET old == Val(dPrev)
            new == Val(dCurr)
        IN  /\ ~IsNull(Result.price) <=>
                    (~IsNull(PriceOf(new)) /\ PriceOf(new) # PriceOf(old))
            /\ ~IsNull(Result.price) =>
                    Val(Result.price) = [from |-> PriceOf(old), to |-> PriceOf(new)]
            /\ ~IsNull(Result.availability) <=>
                    (~IsNull(AvailabilityOf(new)) /\ AvailabilityOf(new) # AvailabilityOf(old))
            /\ ~IsNull(Result.availability) =>
                    Val(Result.availability) =
                        [from |-> AvailabilityOf(old), to |-> AvailabilityOf(new)]
            /\ (PriceOf(new) = PriceOf(old) /\ AvailabilityOf(new) = AvailabilityOf(old))
                    => Result = NoChanges

C2_Witness ==
    /\ Called /\ ~IsNull(dPrev)
    /\ PriceOf(Val(dPrev)) = Some(25) /\ PriceOf(Val(dCurr)) = Some(20)
    /\ Result.price = Some([from |-> Some(25), to |-> Some(20)])
    /\ Val(dPrev).title # Val(dCurr).title

\* the workers whose record is in the dataset while their handler still runs
Emitting == {w \in Workers : pc[w] \in {"pushed", "webhook", "slack"}}

\* C3: a PRODUCT pass that read the snapshot after an earlier pass for the same
\* product id committed the same price.current and availability emits a
\* record with an empty detected_changes.
C3_DiffIdempotent ==
    \A w \in Emitting :
        (~IsNull(base[w]) /\ Val(base[w]) = Values(Val(product[w])))
            => Val(product[w]).detected_changes = NoChanges

C3_Witness ==
    \E w \in Emitting :
        /\ ~IsNull(base[w]) /\ Val(base[w]) = Values(Val(product[w]))
        /\ Val(product[w]).url = U1q
        /\ Len(dataset) = 2 /\ dataset[1].url = U1 /\ dataset[2] = Val(product[w])
        /\ dataset[2].detected_changes = NoChanges

Sinks == {"webhook", "slack"}

Configured(sink) ==
    /\ ~IsNull(input.notify)
    /\ IF sink = "webhook" THEN ~IsNull(Val(input.notify).webhookUrl)
       ELSE ~IsNull(Val(input.notify).slackWebhookUrl)

PostsOf(sink, r) == {j \in DOMAIN posts : posts[j].sink = sink /\ posts[j].item = r}

\* the emitted records whose handler is through with sendNotifications
Delivered ==
    {i \in DOMAIN dataset : \A w \in Emitting : Val(product[w]) # dataset[i]}

\* C4: a POST is made only to a configured sink and only for a record whose
\* detected_changes is non-empty, and once sendNotifications is through with
\* an emitted record, each configured sink has a POST for it exactly when
\* its detected_changes is non-empty.
C4_NotifyIffChanged ==
    /\ \A j \in DOMAIN posts :
         posts[j].item.detected_changes # NoChanges /\ Configured(posts[j].sink)
    /\ \A i \in Delivered : \A sink \in Sinks :
         (PostsOf(sink, dataset[i]) # {}) <=>
            (Configured(sink) /\ dataset[i].detected_changes # NoChanges)

C4_Witness ==
    \E i, k \in Delivered :
        /\ dataset[i].detected_changes.first_seen
        /\ PostsOf("webhook", dataset[i]) # {}
        /\ dataset[k].detected_changes = NoChanges
        /\ Configured("webhook") /\ PostsOf("webhook", dataset[k]) = {}

\* C5: with both sinks configured, a record with a non-empty change set gets
\* exactly one POST per sink whatever the outcome of the other POST, no
\* record gets two POSTs to one sink, and no error leaves sendNotifications.
C5_SinkIsolation ==
    /\ \A w \in Workers : pc[w] # "thrown"
    /\ \A i \in DOMAIN dataset : \A sink \in Sinks :
         Cardinality(PostsOf(sink, dataset[i])) <= 1
    /\ \A i \in Delivered :
         (Configured("webhook") /\ Configured("slack")
            /\ dataset[i].detected_changes # NoChanges)
         => \A sink \in Sinks : Cardinality(PostsOf(sink, dataset[i])) = 1

C5_Witness ==
    \E i \in Delivered : \E j \in PostsOf("webhook", dataset[i]) :
        /\ ~posts[j].ok
        /\ \E k \in PostsOf("slack", dataset[i]) : k > j

\* two forms of one URL: the strings are the same up to the first "?"
SameButQuery(u1, u2) == u1.host = u2.host /\ u1.path = u2.path

\* C6: of the URLs that differ only by their query string, at most one is
\* processed as a PRODUCT request.
C6_FrontierDedup ==
    \A u1, u2 \in processed : SameButQuery(u1, u2) => u1 = u2

\* C7: link discovery calls addRequest at most once per dedup key, and no key
\* ever leaves seenProductIds.
C7_SeenSetSafe ==
    /\ [](\A k \in DOMAIN discovered : discovered[k] <= 1)
    /\ [][seenProductIds \subseteq seenProductIds']_vars

C7_Witness ==
    /\ \A w \in {1, 2} : pc[w] = "add" /\ Val(req[w]).label \in ListingLabels
    /\ Val(req[1]).label # Val(req[2]).label
    /\ \E k \in DOMAIN discovered : discovered[k] = 1 /\ k \in seenProductIds

\* C8: one handling of a listing request enqueues at most the per-page
\* maximum of PRODUCT requests.
C8_ListingCap ==
    \A w \in Workers : enqueued[w] <= ListingMaxLinks

C8_Witness ==
    \E w \in Workers : enqueued[w] = ListingMaxLinks /\ pc[w] = "idle"

\* C9: once totalPushed has reached maxItems no worker takes a PRODUCT request.
C9_BudgetStopsCrawl ==
    [][totalPushed >= input.maxItems =>
        \A w \in Workers : ~(pc[w] = "idle" /\ pc'[w] = "extract")]_vars

IsErrorRecord(r, url) == "type" \in DOMAIN r /\ r.type = "error" /\ r.url = url

\* C10: every request that failedRequestHandler was called for has exactly
\* one error record in the dataset.
C10_ErrorRecordPerFailure ==
    \A i \in DOMAIN failedLog :
        Cardinality({j \in DOMAIN dataset : IsErrorRecord(dataset[j], failedLog[i])}) = 1

\* C11: an error at store.getValue or store.setValue of a PRODUCT request
\* abandons the request (it is not queued again) with an error record, emits
\* no product record, posts no notification, leaves totalPushed alone, and
\* leaves the other workers and the crawl running.
C11_PersistenceErrorFatalForRequestOnly ==
    [][\A w \in Workers :
         (pc[w] \in {"read", "save"} /\ pc'[w] = "idle") =>
            LET r == Val(req[w])
            IN  /\ \A i \in DOMAIN pending' : pending'[i].url # r.url
                /\ Len(dataset') = Len(dataset) + 1
                /\ IsErrorRecord(dataset'[Len(dataset')], r.url)
                /\ posts' = posts
                /\ totalPushed' = totalPushed
                /\ tornDown' = tornDown
                /\ \A v \in Workers \ {w} : pc'[v] = pc[v]]_vars

\* the awaits of the PRODUCT branch that may follow the await a handler is at
Successors(at) ==
    CASE at = "extract" -> IF input.captureScreenshots THEN {"screenshot"} ELSE {"read"}
      [] at = "screenshot" -> {"read"}
      [] at = "read" -> {"save"}
      [] at = "save" -> {"push"}
      [] at = "push" -> {"pushed"}
      [] at = "pushed" -> {"webhook", "slack"}
      [] at = "webhook" -> {"slack"}
      [] at = "slack" -> {}
      [] OTHER -> {}

IsSnapshotKey(k) == k.kind = "product"
Changed(k) == k \notin DOMAIN store \/ store'[k] # store[k]

\* one step of the crawl keeps the order extraction, screenshot, snapshot read
\* and diff, snapshot commit, emission, notification: a handler moves to the
\* next await of the order (or ends), and each effect is made at its own step
OrderedStep ==
    /\ \A w \in Workers :
         /\ (pc[w] \notin {"idle", "collect", "add"} /\ pc'[w] \notin {pc[w], "idle"})
                => pc'[w] \in Successors(pc[w])
         /\ (IsNull(product[w]) /\ ~IsNull(product'[w])) => pc[w] = "extract"
         /\ (~IsNull(product[w]) /\ ~IsNull(product'[w])
                /\ Val(product'[w]).detected_changes # Val(product[w]).detected_changes)
                => pc[w] = "read"
    /\ \A k \in DOMAIN store' :
         Changed(k) => \E w \in Workers :
                          pc[w] = IF IsSnapshotKey(k) THEN "save" ELSE "screenshot"
    /\ dataset' # dataset
         => \E w \in Workers : pc[w] = "push" /\ dataset' = Append(dataset, Val(product[w]))
    /\ posts' # posts
         => \E w \in Workers : /\ pc[w] \in {"webhook", "slack"}
                               /\ posts'[Len(posts')].item = Val(product[w])
                               /\ InSeq(Val(product[w]), dataset)

\* C12 as stated: the steps of a PRODUCT request keep the order, and
\* totalPushed is incremented only by the step that ends the request's
\* notification dispatch.
C12_CountAfterNotify ==
    [][/\ OrderedStep
       /\ totalPushed' # totalPushed
            => \E w \in Workers : pc[w] \in {"pushed", "webhook", "slack"} /\ pc'[w] = "idle"]_vars

\* C12 as amended: the steps of a PRODUCT request keep the order extraction,
\* screenshot, snapshot read and diff, snapshot commit, emission, increment of
\* totalPushed, notification dispatch: the increment is made by the step that
\* follows the emission, before any POST for the record.
C12_CountBeforeNotify ==
    [][/\ OrderedStep
       /\ totalPushed' # totalPushed
            => \E w \in Workers : /\ pc[w] = "pushed"
                                  /\ totalPushed' = totalPushed + 1
                                  /\ posts' = posts
                                  /\ PostsOf("webhook", Val(product[w])) = {}
                                  /\ PostsOf("slack", Val(product[w])) = {}
       /\ \A w \in Workers : (pc[w] = "pushed" /\ pc'[w] # pc[w]) => totalPushed' = totalPushed + 1]_vars

C12_Witness ==
    \E w \in Workers :
        /\ pc[w] = "slack" /\ posts = <<>>
        /\ ~IsNull(Val(product[w]).screenshot_key)
        /\ ~IsNull(Val(product[w]).detected_changes.price)
        /\ store[SnapshotKey(Val(product[w]).product_id)] = Val(product[w])
        /\ dataset = <<Val(product[w])>>
        /\ totalPushed = 1

\* the commit step of worker w: await store.setValue(snapshotKey, product) resolved
Commits(w) == pc[w] = "save" /\ pc'[w] = "push"

\* a commit stores the handler's complete record under its product id, adds
\* no other key and changes no other value
CommitIsOverwrite ==
    \A w \in Workers :
        Commits(w) =>
            LET p == Val(product[w])
                k == SnapshotKey(p.product_id)
            IN  /\ DOMAIN store' = DOMAIN store \cup {k}
                /\ store'[k] = p
                /\ \A x \in DOMAIN store \ {k} : store'[x] = store[x]
                /\ product'[w] = product[w]

\* C13 as stated: a commit is a whole-record overwrite that leaves the other
\* snapshots alone, and when a PRODUCT request completes the snapshot stored
\* under its product id is the record the request emitted.
C13_SnapshotIsEmittedRecord ==
    [][/\ CommitIsOverwrite
       /\ \A w \in Workers :
            (pc[w] \in {"pushed", "webhook", "slack"} /\ pc'[w] = "idle")
                => store'[SnapshotKey(Val(product[w]).product_id)] = Val(product[w])]_vars

\* C13 as amended: a commit is a whole-record overwrite that leaves the other
\* snapshots alone, the record a request emits is the record it committed,
\* and a snapshot changes at a commit under its product id only (so it is the
\* record of the last commit, which a concurrent request for the same product
\* id may have made before this one completes).
C13_CommitIsWholeRecordOverwrite ==
    [][/\ CommitIsOverwrite
       /\ \A w \in Workers :
            (pc[w] = "push" /\ pc'[w] = "pushed")
                => /\ dataset' = Append(dataset, Val(product[w]))
                   /\ product'[w] = product[w]
       /\ \A k \in DOMAIN store' :
            (IsSnapshotKey(k) /\ Changed(k))
                => \E w \in Workers :
                     Commits(w) /\ k = SnapshotKey(Val(product[w]).product_id)]_vars

C13_Witness ==
    \E w \in Workers :
        /\ pc[w] = "push"
        /\ store[SnapshotKey(Val(product[w]).product_id)] = Val(product[w])
        /\ Val(product[w]).detected_changes.price = Some([from |-> Some(25), to |-> Some(20)])
        /\ ScreenshotKey(Val(product[w]).product_id) \in DOMAIN store

\* the workers whose record is in the dataset and not yet counted
NotCounted == {w \in Workers : pc[w] = "pushed"}

\* C14: totalPushed is the number of records in the dataset whenever no
\* handler is between its pushData and its increment, under every
\* interleaving of the handlers; it changes by one at a time, in the step of
\* a PRODUCT handler after its pushData, and never in a step of a listing
\* request.
C14_CounterCountsEmissions ==
    /\ [](NotCounted = {} => totalPushed = Len(dataset))
    /\ [][totalPushed' # totalPushed
            => /\ totalPushed' = totalPushed + 1
               /\ \E w \in Workers : /\ pc[w] = "pushed" /\ pc'[w] # "pushed"
                                     /\ Val(req[w]).label = "PRODUCT"]_vars

C14_Witness ==
    /\ pc[1] = "webhook" /\ pc[2] = "webhook"
    /\ totalPushed = 2 /\ Len(dataset) = 2

Extracted == ~IsNull(eOut)
Record == Val(eOut)

\* the fields of out that the sources fill
OutFields == {"product_id", "title", "price", "availability"}

\* a source has set the field f of out
IsSet(f, out) == IF f \in {"product_id", "title"} THEN JsTruthy(out[f]) ELSE ~IsNull(out[f])

\* the field f of the record, when it comes from the value out has for it
FieldIs(f, r, out) ==
    CASE f = "product_id" -> r.product_id = Lit(JsString(out.product_id))
      [] f = "title" -> r.title = out.title
      [] f = "price" -> r.price.current = out.price
      [] f = "availability" -> r.availability = out.availability

\* out after the linked data, the hydration payload, the state caches
AfterSources(pg) == {AfterLinkedData(pg), AfterNextData(pg), AfterApollo(pg), AfterSigi(pg)}

\* C15: a field that a source has set keeps that value in the record
\* extractProduct returns, whatever the later sources hold; in particular
\* the availability and the price of the linked-data offer.
C15_FirstNonNullWins ==
    Extracted =>
        \A out \in AfterSources(Val(ePage)) : \A f \in OutFields :
            IsSet(f, out) => FieldIs(f, Record, out)

\* C16: the product_id of the record is a non-empty string: the embedded id
\* when the page has one, else the id matched in the URL, else the digest of
\* the URL.
C16_ProductIdNonEmpty ==
    Extracted =>
        LET embedded == Evaluate(Val(ePage)).product_id
            m == ProductPathMatch(Val(eUrl))
        IN  /\ Record.product_id.id # ""
            /\ Record.product_id =
                 IF JsTruthy(embedded) THEN Lit(JsString(embedded))
                 ELSE IF ~IsNull(m) THEN Lit(Val(m))
                 ELSE Sha1(Val(eUrl))

NoStructuredData(pg) ==
    IsNull(pg.ld) /\ IsNull(pg.next) /\ pg.apollo = <<>> /\ ~JsTruthy(pg.sigi)

\* the path segments that are numbers (of one or two digits)
NumericSegments == {ToString(n) : n \in 0..99}
HasNumericSegment(url) == \E i \in DOMAIN url.path : url.path[i] \in NumericSegments

\* C17 as stated: for a page with no structured data and a URL with no
\* numeric path segment, product_id is the digest of the URL.
C17_DigestWhenNoNumericSegment ==
    (Extracted /\ NoStructuredData(Val(ePage)) /\ ~HasNumericSegment(Val(eUrl)))
        => Record.product_id = Sha1(Val(eUrl))

\* C17 as amended: for a page with no structured data and a URL in which no
\* segment follows "product/", product_id is the digest of the URL, so it is
\* the same for every such page at that URL.
C17_DigestWhenNoProductSegment ==
    (Extracted /\ NoStructuredData(Val(ePage)) /\ IsNull(ProductPathMatch(Val(eUrl))))
        => Record.product_id = Sha1(Val(eUrl))

C17_Witness ==
    /\ Extracted /\ NoStructuredData(Val(ePage))
    /\ Val(eUrl) = UView /\ Val(ePage).dom.h1 = JStr("Heading")
    /\ Record.product_id = Sha1(UView)

\* C18: the url of every record in the dataset has no query string and no
\* fragment.
C18_UrlCanonical ==
    \A i \in DOMAIN dataset : dataset[i].url.query = "" /\ dataset[i].url.frag = ""

\* the screenshot step of worker w ended in the catch: no key was set
ScreenshotFails(w) == pc[w] = "screenshot" /\ pc'[w] # "screenshot" /\ product'[w] = product[w]

\* C19: a failed screenshot leaves the handler at the snapshot read with its
\* record unchanged and screenshot_key null, and a record emitted with a null
\* screenshot_key is the record extractProduct returned with its diff, as in
\* a run without screenshots.
C19_ScreenshotFailureNonFatal ==
    /\ [][\A w \in Workers :
            ScreenshotFails(w) => /\ pc'[w] = "read"
                                  /\ IsNull(Val(product'[w]).screenshot_key)
                                  /\ UNCHANGED <<store, dataset, totalPushed, posts, pending, failedLog>>]_vars
    /\ [](\A i \in DOMAIN dataset :
            IsNull(dataset[i].screenshot_key) =>
                \E data \in site.data :
                    dataset[i] = [extractProduct(data, dataset[i].url)
                                    EXCEPT !.detected_changes = dataset[i].detected_changes])

C19_Witness ==
    /\ input.captureScreenshots
    /\ Len(dataset) = 1 /\ totalPushed = 1
    /\ IsNull(dataset[1].screenshot_key)
    /\ dataset[1].detected_changes.price = Some([from |-> Some(25), to |-> Some(20)])
    /\ store[SnapshotKey(dataset[1].product_id)] = dataset[1]
    /\ ScreenshotKey(dataset[1].product_id) \notin DOMAIN store
    /\ Len(posts) = 1

\* C20: the number of requests a run processes never exceeds the maximum of
\* total requests its input configures (the PRODUCT requests alone are
\* counted here).
C20_RequestCeiling ==
    Cardinality(processed) <= input.maxRequestsPerCrawl

\* cs without its commas; cs with its commas turned into dots
RECURSIVE WithoutCommas(_)
WithoutCommas(cs) ==
    IF cs = <<>> THEN <<>>
    ELSE IF Head(cs) = "," THEN WithoutCommas(Tail(cs))
    ELSE <<Head(cs)>> \o WithoutCommas(Tail(cs))

CommasAsDots(cs) == [i \in DOMAIN cs |-> IF cs[i] = "," THEN "." ELSE cs[i]]

\* the locale-aware value of a price string: with a comma and a dot the
\* comma separates thousands, with a comma alone it is the decimal separator
LocaleNumber(cs) ==
    IF IndexOf(cs, ",", 1) # 0 /\ IndexOf(cs, ".", 1) # 0 THEN ParseNumber(WithoutCommas(cs))
    ELSE IF IndexOf(cs, ",", 1) # 0 THEN ParseNumber(CommasAsDots(cs))
    ELSE ParseNumber(cs)

\* C21: the price.current of a record whose only price is the string of the
\* linked-data offer is the locale-aware value of that string: "2,0" gives
\* 2, "1,234.0" gives 1234, and a string that is no number gives null.
C21_LocaleAwarePrice ==
    \A cs \in PriceTexts :
        (/\ Extracted
         /\ Val(ePage).apollo = <<>>
         /\ ~IsNull(Val(ePage).ld) /\ ~IsNull(Val(Val(ePage).ld).offers)
         /\ Val(Val(Val(ePage).ld).offers).price = JText(cs))
            => Record.price.current = LocaleNumber(cs)

\* C22: in one run at most one emitted record of a product id has
\* detected_changes.first_seen = true, also when two PRODUCT requests of
\* that product id are in flight at once.
C22_FirstSeenOnce ==
    \A i, j \in DOMAIN dataset :
        (/\ dataset[i].product_id = dataset[j].product_id
         /\ dataset[i].detected_changes.first_seen
         /\ dataset[j].detected_changes.first_seen) => i = j

\* the crawl is over: no handler runs, and the queue is empty or the crawler
\* was torn down
Done == (\A w \in Workers : pc[w] = "idle") /\ (pending = <<>> \/ tornDown)

\* the record r was emitted with the price entry / availability entry e
EmittedWith(r, field, e) ==
    \E j \in DOMAIN dataset :
        dataset[j].product_id = r.product_id /\ dataset[j].detected_changes[field] = Some(e)

\* C23: no change is lost between the commit and the emission: when the
\* crawl is over, for every commit that replaced the stored price.current
\* (availability) by a different non-null value, a record of that product id
\* whose detected_changes holds that change is in the dataset.
C23_NoChangeLost ==
    Done =>
        \A k \in DOMAIN commits : \A i \in 2..Len(commits[k]) :
            LET old == commits[k][i - 1]
                new == commits[k][i]
            IN  /\ (PriceCurrent(new) # PriceCurrent(old) /\ ~IsNull(PriceCurrent(new)))
                      => EmittedWith(new, "price",
                                     [from |-> PriceCurrent(old), to |-> PriceCurrent(new)])
                /\ (Availability(new) # Availability(old) /\ ~IsNull(Availability(new)))
                      => EmittedWith(new, "availability",
                                     [from |-> Availability(old), to |-> Availability(new)])

\* C24: when the snapshot of a product has the price p, the next pass
\* yields the price null and the pass after it yields p again, neither pass
\* has a price entry in its detected_changes; likewise for availability.
C24_NullPassLeavesNoSignal ==
    \A k \in DOMAIN commits : \A i \in 1..(Len(commits[k]) - 2) :
        LET snapshot == commits[k][i]
            nullPass == commits[k][i + 1]
            nextPass == commits[k][i + 2]
        IN  /\ (/\ ~IsNull(PriceCurrent(snapshot))
                /\ IsNull(PriceCurrent(nullPass))
                /\ PriceCurrent(nextPass) = PriceCurrent(snapshot))
                  => /\ IsNull(nullPass.detected_changes.price)
                     /\ IsNull(nextPass.detected_changes.price)
            /\ (/\ ~IsNull(Availability(snapshot))
                /\ IsNull(Availability(nullPass))
                /\ Availability(nextPass) = Availability(snapshot))
                  => /\ IsNull(nullPass.detected_changes.availability)
                     /\ IsNull(nextPass.detected_changes.availability)

\* C25: every key of the seen-set is the key of a link whose PRODUCT request
\* was added to the queue, or is being added by a handler suspended at its
\* addRequest: no key stays marked when its enqueue failed.
C25_SeenKeysWereEnqueued ==
    \A k \in seenProductIds :
        \/ Count(discovered, k) >= 1
        \/ \E w \in Workers : pc[w] = "add" /\ SeenKey(Head(links[w])) = k

\* a step of the handler of worker w: code of requestHandler between two
\* awaits (not the crawler taking, reclaiming or failing the request)
HandlerStep(w) ==
    /\ pc[w] \notin {"idle", "thrown"}
    /\ faults' = faults
    /\ pc'[w] # pc[w] \/ links'[w] # links[w]

\* C26: a step of the handler of a listing request leaves the key-value
\* store, the dataset and totalPushed unchanged and sends no notification; a
\* step of the handler of a PRODUCT request leaves the seen-set and the
\* request queue unchanged.
C26_HandlerFrames ==
    [][\A w \in Workers :
          HandlerStep(w) =>
              IF Val(req[w]).label \in ListingLabels
              THEN UNCHANGED <<store, dataset, totalPushed, posts>>
              ELSE /\ Val(req[w]).label = "PRODUCT"
                   /\ UNCHANGED <<seenProductIds, pending, known>>]_vars

\* both kinds of handler have run to their end: a link was discovered and
\* enqueued, and a record was emitted and counted
C26_Witness ==
    /\ discovered # <<>> /\ seenProductIds # {}
    /\ dataset # <<>> /\ totalPushed > 0
    /\ \A w \in Workers : pc[w] = "idle"

\* the crawl under fair scheduling: the pool starts a task whenever a slot
\* is free and a request waits, and every await of a handler settles
FairSpec == Spec /\ WF_vars(Next)

\* C27: the crawl terminates: under fair scheduling every run reaches the
\* state in which no handler runs and the queue is empty or the crawler was
\* torn down, whether or not the item cap is reached.
C27_CrawlTerminates == <>Done

\* a crawl that ended with its queue exhausted, below the item cap: links
\* were discovered and enqueued, and records were emitted
C27_Witness ==
    /\ Done /\ ~tornDown /\ pending = <<>>
    /\ discovered # <<>>
    /\ dataset # <<>>

====
